---- MODULE Spec2Model ----
(***************************************************************************)
(* The NeuralNet backend interface of cpp/neuralnet/nninterface.h as a     *)
(* protocol state machine: the opaque resources (LoadedModel,              *)
(* ComputeContext, ComputeHandle, InputBuffers), the calls that create,    *)
(* use and release them, and the threads that make the calls.              *)
(***************************************************************************)
EXTENDS Integers, Sequences, FiniteSets, TLC

\* ------------------------------------------------------------------ bounds
NumThreads == 2
MaxContexts == 2
MaxHandles == 2
MaxBuffers == 1
MaxBatch == 2
NumGpus == 2
MaxVersion == 3
TestLen == 2

Threads == 1..NumThreads
Models == {1}
Contexts == 1..MaxContexts
\* Enough objects for a handle and a buffer set per thread.
MaxOf(a, b) == IF a >= b THEN a ELSE b
Handles == 1..MaxOf(MaxHandles, NumThreads)
Buffers == 1..MaxOf(MaxBuffers, NumThreads)
Gpus == 0..(NumGpus - 1)
\* gpuIdxForThisThread: a device index, or -1 for "select a default GPU".
GpuIdxs == Gpus \cup {-1}
BatchSizes == 1..MaxBatch
\* The versions a model file may declare; later versions support more rulesets.
ModelVersions == 1..MaxVersion
\* A Rules value: a ruleset identifier and a komi.
Rulesets == 1..(MaxVersion + 1)
Komis == {5, 6, 7}
AllRules == [ruleset : Rulesets, komi : Komis]
\* The feature pattern written to one tensor of a batch slot.
FeatureValues == {0, 1}
\* The value written to a slot's global tensor.
GlobalValues == {0}
\* bool[3] symmetries, as the set of the indices that are true.
SymmetrySets == SUBSET {0, 1, 2}
\* The symmetries the evaluating thread selects: none, or a flip and a transpose.
EvalSyms == {{}, {0, 2}}

VARIABLES
  env,          \* "uninit" | "init" | "cleaned" (| "aborted": died of a fatal error)
  initCalls,    \* number of globalInitialize calls made
  cleanupCalls, \* number of globalCleanup calls made
  models,       \* [Models -> record]: LoadedModel objects
  contexts,     \* [Contexts -> record]: ComputeContext objects
  handles,      \* [Handles -> record]: ComputeHandle objects
  buffers,      \* [Buffers -> record]: InputBuffers objects
  threadDev,    \* [Threads -> SUBSET Gpus]: the GPU a thread is bound to ({}: none yet)
  pc,           \* [Threads -> record]: the call a thread is blocked in
  outputs,      \* [Threads -> Seq(NNOutput)]: the caller's outputs vector
  evalLog,      \* [Threads -> record]: the thread's last completed getOutput call
  rulesQ,       \* the getSupportedRules query in progress
  harness       \* the conformance harness: backend, caller's outputBuffer, last return

vars == <<env, initCalls, cleanupCalls, models, contexts, handles, buffers,
          threadDev, pc, outputs, evalLog, rulesQ, harness>>

lifeVars == <<env, initCalls, cleanupCalls>>
objVars == <<models, contexts, handles, buffers>>
evalVars == <<pc, outputs, evalLog>>
auxVars == <<rulesQ, harness>>

\* ------------------------------------------------------------ object records
NoModel == [state |-> "none", version |-> 0]
NoContext == [state |-> "none", model |-> 0, fp16 |-> FALSE]
NoHandle == [state |-> "none", ctx |-> 0, model |-> 0, owner |-> 0, dev |-> 0,
             maxBatch |-> 0, exact |-> FALSE]
NoBuffers == [state |-> "none", model |-> 0, owner |-> 0, maxBatch |-> 0,
              slots |-> <<>>, sym |-> {}]
FreedBuffers == [NoBuffers EXCEPT !.state = "freed"]
\* evalLog: which call it was, whether the buffers it read are untouched since
\* (clean), and whether it repeated the call before it on untouched inputs.
NoEval == [h |-> 0, b |-> 0, n |-> 0, clean |-> FALSE, repeat |-> FALSE]
Idle == [op |-> "idle", h |-> 0, b |-> 0, n |-> 0]

LiveContexts == {c \in Contexts : contexts[c].state = "live"}
LiveHandles == {h \in Handles : handles[h].state = "live"}
LiveBuffers == {b \in Buffers : buffers[b].state = "live"}
LiveModels == {m \in Models : models[m].state = "live"}

\* The handles created from context c that have not been freed.
HandlesOf(c) == {h \in LiveHandles : handles[h].ctx = c}

\* The number the next object gets when objects are numbered in the order of
\* their creation.
NewContext == 1 + Cardinality({c \in Contexts : contexts[c].state # "none"})
NewHandle == 1 + Cardinality({h \in Handles : handles[h].state # "none"})
NewBuffers == 1 + Cardinality({b \in Buffers : buffers[b].state # "none"})

\* Ready without the bracket: calls are made whatever the environment's state.
ReadyAnytime(t) == pc[t].op = "idle"

\* A thread makes a call only between globalInitialize and globalCleanup, and
\* only when it is not blocked inside another call.
Ready(t) == env = "init" /\ pc[t].op = "idle"

\* ----------------------------------------------------- environment lifecycle
globalInitialize ==
  /\ env = "uninit"
  /\ env' = "init"
  /\ initCalls' = initCalls + 1
  /\ UNCHANGED <<cleanupCalls, objVars, threadDev, evalVars, auxVars>>

\* Everything created through the layer has been released.
AllResourcesReleased ==
  /\ LiveModels = {}
  /\ LiveContexts = {}
  /\ LiveHandles = {}
  /\ LiveBuffers = {}

globalCleanup ==
  /\ env = "init"
  /\ \A t \in Threads : pc[t].op = "idle"
  /\ AllResourcesReleased
  /\ env' = "cleaned"
  /\ cleanupCalls' = cleanupCalls + 1
  /\ UNCHANGED <<initCalls, objVars, threadDev, evalVars, auxVars>>

\* ------------------------------------------------------------------ model I/O
\* m is the object the call returns; version is what the file declares.
loadModelFile(t, m, version) ==
  /\ Ready(t)
  /\ models[m].state = "none"
  /\ models' = [models EXCEPT ![m] = [state |-> "live", version |-> version]]
  /\ UNCHANGED <<lifeVars, contexts, handles, buffers, threadDev, evalVars, auxVars>>

\* The rulesets a model of the given version was trained for.
SupportedRulesets(version) == {r \in Rulesets : r <= version}

Dist(a, b) == IF a >= b THEN a - b ELSE b - a

\* The member of S nearest to ruleset r (the lower one of two equally near).
NearestRuleset(S, r) ==
  CHOOSE x \in S : \A y \in S :
    \/ Dist(x, r) < Dist(y, r)
    \/ Dist(x, r) = Dist(y, r) /\ x <= y

\* ResolveRules that only steps one ruleset towards the supported ones.
ResolveRulesOneStep(version, desiredRules) ==
  IF desiredRules.ruleset \in SupportedRulesets(version)
  THEN [rules |-> desiredRules, supported |-> TRUE]
  ELSE [rules |-> [desiredRules EXCEPT !.ruleset = desiredRules.ruleset - 1],
        supported |-> FALSE]

\* "Return the nearest supported ruleset to desiredRules by this model. Fills
\* supported with true if desiredRules itself was exactly supported, false if
\* some modifications had to be made."
ResolveRules(version, desiredRules) ==
  IF desiredRules.ruleset \in SupportedRulesets(version)
  THEN [rules |-> desiredRules, supported |-> TRUE]
  ELSE [rules |-> [desiredRules EXCEPT !.ruleset =
                     NearestRuleset(SupportedRulesets(version), desiredRules.ruleset)],
        supported |-> FALSE]

\* The query's record keeps the request, the answer, whether the request was
\* the answer of the query before it on the same model (fedBack), and that
\* earlier query's flag.
getSupportedRules(t, m, desiredRules) ==
  /\ Ready(t)
  /\ models[m].state = "live"
  /\ LET r == ResolveRules(models[m].version, desiredRules)
         fed == /\ rulesQ.stage = "done"
                /\ rulesQ.model = m
                /\ rulesQ.rules = desiredRules
     IN rulesQ' = [stage |-> "done", model |-> m, desired |-> desiredRules,
                   rules |-> r.rules, supported |-> r.supported,
                   fedBack |-> fed,
                   prevSupported |-> IF fed THEN rulesQ.supported ELSE TRUE]
  /\ UNCHANGED <<lifeVars, objVars, threadDev, evalVars, harness>>

\* No context and no handle still needs model m.
ModelUnreferenced(m) ==
  /\ \A c \in LiveContexts : contexts[c].model # m
  /\ \A h \in LiveHandles : handles[h].model # m

freeLoadedModel(t, m) ==
  /\ Ready(t)
  /\ models[m].state = "live"
  /\ ModelUnreferenced(m)
  /\ models' = [models EXCEPT ![m].state = "freed"]
  /\ UNCHANGED <<lifeVars, contexts, handles, buffers, threadDev, evalVars, auxVars>>

\* -------------------------------------------------------------------- context
\* useFP16Mode is an enabled_t: "on", "off", or "auto", which the backend
\* resolves at creation (resolved is the backend's choice).
ResolvedModes(mode) == IF mode = "on" THEN {TRUE}
                       ELSE IF mode = "off" THEN {FALSE} ELSE BOOLEAN

\* c is the object the call returns: one that did not exist before.
createComputeContext(t, c, m, useFP16Mode) ==
  /\ Ready(t)
  /\ models[m].state = "live"
  /\ contexts[c].state = "none"
  /\ \E fp16 \in ResolvedModes(useFP16Mode) :
       contexts' = [contexts EXCEPT ![c] =
                      [state |-> "live", model |-> m, fp16 |-> fp16]]
  /\ UNCHANGED <<lifeVars, models, handles, buffers, threadDev, evalVars, auxVars>>

\* MayFreeContext without the check of the context's handles.
MayFreeContextUnchecked(c) == TRUE

\* "A ComputeContext should NOT be freed until all ComputeHandles created
\* using it have also been freed."
MayFreeContext(c) == HandlesOf(c) = {}

\* freeComputeContext that also tears down the calling thread's InputBuffers.
freeComputeContextAndBuffers(t, c) ==
  /\ Ready(t)
  /\ contexts[c].state = "live"
  /\ MayFreeContext(c)
  /\ contexts' = [contexts EXCEPT ![c].state = "freed"]
  /\ buffers' = [b \in Buffers |->
                   IF buffers[b].state = "live" /\ buffers[b].owner = t
                   THEN FreedBuffers ELSE buffers[b]]
  /\ UNCHANGED <<lifeVars, models, handles, threadDev, evalVars, auxVars>>

freeComputeContext(t, c) ==
  /\ Ready(t)
  /\ contexts[c].state = "live"
  /\ MayFreeContext(c)
  /\ contexts' = [contexts EXCEPT ![c].state = "freed"]
  /\ UNCHANGED <<lifeVars, models, handles, buffers, threadDev, evalVars, auxVars>>

\* --------------------------------------------------------------------- handle
\* gpuIdxForThisThread == -1 selects a default GPU.
ResolveGpu(gpuIdx) == IF gpuIdx = -1
                      THEN CHOOSE g \in Gpus : \A g2 \in Gpus : g <= g2
                      ELSE gpuIdx

\* BindThread that leaves the thread's device as it was.
BindThreadNever(t, gpuIdx) == threadDev

\* Creating a handle "will mutably set the GPU that this thread is
\* associated with to the specified index".
BindThread(t, gpuIdx) == [threadDev EXCEPT ![t] = {ResolveGpu(gpuIdx)}]

\* h is the object the call returns.
createComputeHandle(t, h, c, m, maxBatchSize, requireExactNNLen, gpuIdxForThisThread) ==
  /\ Ready(t)
  /\ contexts[c].state = "live"
  /\ models[m].state = "live"
  /\ maxBatchSize >= 1
  /\ handles[h].state = "none"
  /\ handles' = [handles EXCEPT ![h] =
                   [state |-> "live", ctx |-> c, model |-> m, owner |-> t,
                    dev |-> ResolveGpu(gpuIdxForThisThread),
                    maxBatch |-> maxBatchSize, exact |-> requireExactNNLen]]
  /\ threadDev' = BindThread(t, gpuIdxForThisThread)
  /\ UNCHANGED <<lifeVars, models, contexts, buffers, evalVars, auxVars>>

\* HandleUsableBy without the owner: any thread uses any live handle.
HandleUsableByAny(t, h) == handles[h].state = "live"

\* "Not thread-safe, each handle should only be used by one thread."
HandleUsableBy(t, h) == handles[h].state = "live" /\ handles[h].owner = t

freeComputeHandle(t, h) ==
  /\ Ready(t)
  /\ HandleUsableBy(t, h)
  /\ handles' = [handles EXCEPT ![h].state = "freed"]
  /\ UNCHANGED <<lifeVars, models, contexts, buffers, threadDev, evalVars, auxVars>>

\* -------------------------------------------------------------- input buffers
\* A slot holds a spatial and a global tensor; each is {} until the caller
\* has written it and {v} once it holds v.
EmptySlot == [spatial |-> {}, global |-> {}]

\* The symmetries array is allocated with the buffers and holds whatever the
\* allocation left there until the caller writes it: sym is any value.
\* The log after the caller has written into buffer set b.
Touched(b) == [t \in Threads |->
                IF evalLog[t].b = b THEN [evalLog[t] EXCEPT !.clean = FALSE]
                ELSE evalLog[t]]

\* b is the object the call returns.
createInputBuffers(t, b, m, maxBatchSize, sym) ==
  /\ Ready(t)
  /\ models[m].state = "live"
  /\ maxBatchSize >= 1
  /\ buffers[b].state = "none"
  /\ buffers' = [buffers EXCEPT ![b] =
                   [state |-> "live", model |-> m, owner |-> t,
                    maxBatch |-> maxBatchSize,
                    slots |-> [i \in 1..maxBatchSize |-> EmptySlot],
                    sym |-> sym]]
  /\ UNCHANGED <<lifeVars, models, contexts, handles, threadDev, evalVars, auxVars>>

\* InputBuffers are thread-affine, like the handle they are used with.
BuffersUsableBy(t, b) == buffers[b].state = "live" /\ buffers[b].owner = t

freeInputBuffers(t, b) ==
  /\ Ready(t)
  /\ BuffersUsableBy(t, b)
  /\ buffers' = [buffers EXCEPT ![b] = FreedBuffers]
  /\ evalLog' = Touched(b)
  /\ UNCHANGED <<lifeVars, models, contexts, handles, threadDev, pc, outputs, auxVars>>

\* nIdx names a slot of buffer set b: the array returned for any other index
\* lies outside the allocation.
SlotInRange(b, nIdx) == nIdx >= 0 /\ nIdx < buffers[b].maxBatch

\* The caller takes the slot's spatial array and fills it with v.
getBatchEltSpatialInplace(t, b, nIdx, v) ==
  /\ Ready(t)
  /\ BuffersUsableBy(t, b)
  /\ SlotInRange(b, nIdx)
  /\ buffers' = [buffers EXCEPT ![b].slots[nIdx + 1].spatial = {v}]
  /\ evalLog' = Touched(b)
  /\ UNCHANGED <<lifeVars, models, contexts, handles, threadDev, pc, outputs, auxVars>>

\* The caller takes the slot's global array and fills it with v.
getBatchEltGlobalInplace(t, b, nIdx, v) ==
  /\ Ready(t)
  /\ BuffersUsableBy(t, b)
  /\ SlotInRange(b, nIdx)
  /\ buffers' = [buffers EXCEPT ![b].slots[nIdx + 1].global = {v}]
  /\ evalLog' = Touched(b)
  /\ UNCHANGED <<lifeVars, models, contexts, handles, threadDev, pc, outputs, auxVars>>

\* The caller takes the symmetries array and sets its three flags.
getSymmetriesInplace(t, b, sym) ==
  /\ Ready(t)
  /\ BuffersUsableBy(t, b)
  /\ buffers' = [buffers EXCEPT ![b].sym = sym]
  /\ evalLog' = Touched(b)
  /\ UNCHANGED <<lifeVars, models, contexts, handles, threadDev, pc, outputs, auxVars>>

\* ------------------------------------------------------------------ getOutput
\* BatchFilled without the check: the call is made whatever has been filled.
BatchFilledUnchecked(b, n) == TRUE

\* "buffers has been filled with input data for all values of nIdx in
\* [0,numBatchEltsFilled-1]"
SlotFilled(b, nIdx) ==
  /\ SlotInRange(b, nIdx)
  /\ buffers[b].slots[nIdx + 1].spatial # {}
  /\ buffers[b].slots[nIdx + 1].global # {}

BatchFilled(b, n) == \A nIdx \in 0..(n - 1) : SlotFilled(b, nIdx)

\* The raw (logit) result of the net on one batch element: a function of the
\* element's two tensors, the symmetries, and the handle's configuration.
NNOutputOf(slot, sym, fp16, exact) ==
  [spatial |-> slot.spatial, global |-> slot.global, sym |-> sym,
   fp16 |-> fp16, exact |-> exact]

\* EvalBatch with an indexing slip: every result is computed from slot 0.
EvalBatchFirstSlot(slots, sym, n, fp16, exact) ==
  [i \in 1..n |-> NNOutputOf(slots[1], sym, fp16, exact)]

\* The numBatchEltsFilled results, in slot order.
EvalBatch(slots, sym, n, fp16, exact) ==
  [i \in 1..n |-> NNOutputOf(slots[i], sym, fp16, exact)]

\* The call thread t is in has the handle, the buffers and the count of its
\* last completed call, and nothing was written to the buffers in between.
Repeats(t) ==
  /\ evalLog[t].clean
  /\ evalLog[t].h = pc[t].h
  /\ evalLog[t].b = pc[t].b
  /\ evalLog[t].n = pc[t].n

\* The call is entered: the thread blocks until the device is done.
getOutputBegin(t, h, b, numBatchEltsFilled) ==
  /\ Ready(t)
  /\ HandleUsableBy(t, h)
  /\ BuffersUsableBy(t, b)
  /\ numBatchEltsFilled >= 1
  /\ numBatchEltsFilled <= handles[h].maxBatch
  /\ BatchFilled(b, numBatchEltsFilled)
  /\ pc' = [pc EXCEPT ![t] = [op |-> "getOutput", h |-> h, b |-> b,
                              n |-> numBatchEltsFilled]]
  /\ UNCHANGED <<lifeVars, objVars, threadDev, outputs, evalLog, auxVars>>

\* getOutputEnd that consumes its inputs: the slots it read are left empty.
getOutputEndConsuming(t) ==
  /\ env = "init"
  /\ pc[t].op = "getOutput"
  /\ LET h == handles[pc[t].h]
         b == buffers[pc[t].b]
     IN /\ outputs' = [outputs EXCEPT ![t] =
                         EvalBatch(b.slots, b.sym, pc[t].n,
                                   contexts[h.ctx].fp16, h.exact)]
        /\ evalLog' = [evalLog EXCEPT ![t] =
                         [h |-> pc[t].h, b |-> pc[t].b, n |-> pc[t].n,
                          clean |-> TRUE, repeat |-> Repeats(t)]]
        /\ buffers' = [buffers EXCEPT ![pc[t].b].slots =
                         [i \in 1..b.maxBatch |->
                            IF i <= pc[t].n THEN EmptySlot ELSE b.slots[i]]]
  /\ pc' = [pc EXCEPT ![t] = Idle]
  /\ UNCHANGED <<lifeVars, models, contexts, handles, threadDev, auxVars>>

\* The call returns: the outputs vector holds the results.
getOutputEnd(t) ==
  /\ env = "init"
  /\ pc[t].op = "getOutput"
  /\ LET h == handles[pc[t].h]
         b == buffers[pc[t].b]
     IN /\ outputs' = [outputs EXCEPT ![t] =
                         EvalBatch(b.slots, b.sym, pc[t].n,
                                   contexts[h.ctx].fp16, h.exact)]
        /\ evalLog' = [evalLog EXCEPT ![t] =
                         [h |-> pc[t].h, b |-> pc[t].b, n |-> pc[t].n,
                          clean |-> TRUE, repeat |-> Repeats(t)]]
  /\ pc' = [pc EXCEPT ![t] = Idle]
  /\ UNCHANGED <<lifeVars, objVars, threadDev, auxVars>>

\* ---------------------------------------------------------- conformance tests
\* The layer kinds with a testEvaluate entry point.
LayerKinds == {"conv", "batchnorm", "residual", "gpoolresidual", "symmetry"}

\* Test tensors: one batch element, one channel, a board of TestLen x TestLen
\* (so NHWC and NCHW coincide); a mask has one entry per board cell.
Cells == 1..(TestLen * TestLen)
TestInputs == {[i \in Cells |-> i], [i \in Cells |-> i % 2]}
TestMasks == {[i \in Cells |-> 1], [i \in Cells |-> IF i = 1 THEN 0 ELSE 1]}
\* A layer descriptor, reduced to one weight.
LayerDescs == {1, 2}

RECURSIVE SumSeq(_)
SumSeq(s) == IF s = <<>> THEN 0 ELSE s[1] + SumSeq(Tail(s))

\* The cell that the symmetries map cell i to: flags 0 and 1 mirror the two
\* axes, flag 2 transposes.
SymmetryCell(i, symmetries) ==
  LET y0 == (i - 1) \div TestLen
      x0 == (i - 1) % TestLen
      y1 == IF 2 \in symmetries THEN x0 ELSE y0
      x1 == IF 2 \in symmetries THEN y0 ELSE x0
      y2 == IF 0 \in symmetries THEN TestLen - 1 - y1 ELSE y1
      x2 == IF 1 \in symmetries THEN TestLen - 1 - x1 ELSE x1
  IN y2 * TestLen + x2 + 1

\* What each layer computes on the test tensors (stand-ins for the backend's
\* kernels: a one-weight layer of each kind).
LayerResult(call) ==
  CASE call.kind = "conv" ->
         [i \in Cells |-> call.desc * call.input[i]]
    [] call.kind = "batchnorm" ->
         [i \in Cells |-> (call.input[i] + call.desc) * call.mask[i]]
    [] call.kind = "residual" ->
         [i \in Cells |-> (call.input[i] + call.desc * call.input[i]) * call.mask[i]]
    [] call.kind = "gpoolresidual" ->
         [i \in Cells |->
            (call.input[i]
               + call.desc * SumSeq([j \in Cells |-> call.input[j] * call.mask[j]]))
              * call.mask[i]]
    [] call.kind = "symmetry" ->
         [i \in Cells |-> call.input[SymmetryCell(i, call.syms)]]

\* The record of a call: the buffer as it was before it, and what it returned.
Called(call, ret, out) ==
  [harness EXCEPT !.call = call, !.before = harness.outputBuffer,
                  !.ret = ret, !.outputBuffer = out]

\* testEvaluate that sizes and zero-fills the output before it finds out that
\* the backend does not implement the layer.
testEvaluateResizeFirst(t, call) ==
  /\ Ready(t)
  /\ harness.stage = "ready"
  /\ IF call.kind \in harness.implemented
     THEN harness' = Called(call, "true", LayerResult(call))
     ELSE harness' = Called(call, "false", [i \in Cells |-> 0])
  /\ UNCHANGED <<lifeVars, objVars, threadDev, evalVars, rulesQ>>

\* "If the operation is implemented for testing, a backend should return true
\* and evaluate the specific operation on the input buffer, resizing the output
\* buffer and writing the result. If it is not implemented, backend should
\* return false."
testEvaluate(t, call) ==
  /\ Ready(t)
  /\ harness.stage = "ready"
  /\ IF call.kind \in harness.implemented
     THEN harness' = Called(call, "true", LayerResult(call))
     ELSE harness' = Called(call, "false", harness.outputBuffer)
  /\ UNCHANGED <<lifeVars, objVars, threadDev, evalVars, rulesQ>>

\* An internal failure while the backend runs a layer it implements: the
\* process dies; the call does not return.
testFailure(t, call) ==
  /\ Ready(t)
  /\ harness.stage = "ready"
  /\ call.kind \in harness.implemented
  /\ harness' = Called(call, "fatal", harness.outputBuffer)
  /\ env' = "aborted"
  /\ UNCHANGED <<initCalls, cleanupCalls, objVars, threadDev, evalVars, rulesQ>>

TestCall(kind, desc, inputBuffer, maskBuffer, symmetries) ==
  [kind |-> kind, desc |-> desc, input |-> inputBuffer, mask |-> maskBuffer,
   syms |-> symmetries]

testEvaluateConv(t, desc, inputBuffer) ==
  LET call == TestCall("conv", desc, inputBuffer, <<>>, {})
  IN testEvaluate(t, call) \/ testFailure(t, call)

testEvaluateBatchNorm(t, desc, inputBuffer, maskBuffer) ==
  LET call == TestCall("batchnorm", desc, inputBuffer, maskBuffer, {})
  IN testEvaluate(t, call) \/ testFailure(t, call)

testEvaluateResidualBlock(t, desc, inputBuffer, maskBuffer) ==
  LET call == TestCall("residual", desc, inputBuffer, maskBuffer, {})
  IN testEvaluate(t, call) \/ testFailure(t, call)

testEvaluateGlobalPoolingResidualBlock(t, desc, inputBuffer, maskBuffer) ==
  LET call == TestCall("gpoolresidual", desc, inputBuffer, maskBuffer, {})
  IN testEvaluate(t, call) \/ testFailure(t, call)

testEvaluateSymmetry(t, symmetries, inputBuffer) ==
  LET call == TestCall("symmetry", 0, inputBuffer, <<>>, symmetries)
  IN testEvaluate(t, call) \/ testFailure(t, call)

\* -------------------------------------------------------------- specification
NoQuery == [stage |-> "none"]
NoHarness == [stage |-> "none"]

\* The process before globalInitialize.
Init ==
  /\ env = "uninit"
  /\ initCalls = 0
  /\ cleanupCalls = 0
  /\ models = [m \in Models |-> NoModel]
  /\ contexts = [c \in Contexts |-> NoContext]
  /\ handles = [h \in Handles |-> NoHandle]
  /\ buffers = [b \in Buffers |-> NoBuffers]
  /\ threadDev = [t \in Threads |-> {}]
  /\ pc = [t \in Threads |-> Idle]
  /\ outputs = [t \in Threads |-> <<>>]
  /\ evalLog = [t \in Threads |-> NoEval]
  /\ rulesQ = NoQuery
  /\ harness = NoHarness

\* The whole life of the process, start to termination, as its main thread
\* drives it: objects are numbered in creation order, batches are of one
\* element with one feature pattern, on the default GPU.
MainThread == {1}

Next ==
  \/ globalInitialize
  \/ globalCleanup
  \/ \E t \in MainThread, m \in Models : loadModelFile(t, m, 1)
  \/ \E t \in MainThread, m \in Models : freeLoadedModel(t, m)
  \/ \E t \in MainThread, c \in Contexts, m \in Models :
       c = NewContext /\ c <= MaxContexts /\ createComputeContext(t, c, m, "off")
  \/ \E t \in MainThread, c \in Contexts : freeComputeContext(t, c)
  \/ \E t \in MainThread, h \in Handles, c \in Contexts, m \in Models :
       h = NewHandle /\ h <= MaxHandles /\ createComputeHandle(t, h, c, m, 1, FALSE, -1)
  \/ \E t \in MainThread, h \in Handles : freeComputeHandle(t, h)
  \/ \E t \in MainThread, b \in Buffers, m \in Models :
       b = NewBuffers /\ b <= MaxBuffers /\ createInputBuffers(t, b, m, 1, {})
  \/ \E t \in MainThread, b \in Buffers : freeInputBuffers(t, b)
  \/ \E t \in MainThread, b \in Buffers : getBatchEltSpatialInplace(t, b, 0, 0)
  \/ \E t \in MainThread, b \in Buffers : getBatchEltGlobalInplace(t, b, 0, 0)
  \/ \E t \in MainThread, h \in Handles, b \in Buffers : getOutputBegin(t, h, b, 1)
  \/ \E t \in MainThread : getOutputEnd(t)

Spec == Init /\ [][Next]_vars

\* ------------------------------------------------------ lifecycle properties
\* C1: a ComputeContext that has been freed has no live ComputeHandle created
\* from it: every handle of a context is freed before the context is.
C1_NoLiveHandleOfFreedContext ==
  \A c \in Contexts : contexts[c].state = "freed" =>
    \A h \in Handles : handles[h].state = "live" => handles[h].ctx # c

\* A context has been freed after a handle created from it was freed, while a
\* handle of another context is still alive.
C1_Witness ==
  \E c \in Contexts, h \in Handles, g \in Handles :
    /\ contexts[c].state = "freed"
    /\ handles[h].state = "freed" /\ handles[h].ctx = c
    /\ handles[g].state = "live"

\* Nothing has been created or called yet.
Untouched ==
  /\ models = [m \in Models |-> NoModel]
  /\ contexts = [c \in Contexts |-> NoContext]
  /\ handles = [h \in Handles |-> NoHandle]
  /\ buffers = [b \in Buffers |-> NoBuffers]
  /\ threadDev = [t \in Threads |-> {}]
  /\ pc = [t \in Threads |-> Idle]
  /\ evalLog = [t \in Threads |-> NoEval]

\* C2: globalInitialize is called exactly once and before every other call;
\* globalCleanup is called exactly once, only when every model, context,
\* handle and buffer set has been released; and no call follows globalCleanup.
C2_Bracket ==
  /\ [](/\ env = "uninit" => initCalls = 0 /\ cleanupCalls = 0 /\ Untouched
        /\ env = "init" => initCalls = 1 /\ cleanupCalls = 0
        /\ env = "cleaned" => initCalls = 1 /\ cleanupCalls = 1
                              /\ AllResourcesReleased)
  /\ [][/\ env # "cleaned"
        /\ env = "uninit" => env' = "init" /\ Untouched'
        /\ env' = "cleaned" => AllResourcesReleased]_vars

\* The environment has been cleaned up after a model, a context, a handle
\* and a buffer set were created, used and released.
C2_Witness ==
  /\ env = "cleaned"
  /\ \E m \in Models : models[m].state = "freed"
  /\ \E c \in Contexts : contexts[c].state = "freed"
  /\ \E h \in Handles : handles[h].state = "freed"
  /\ \E b \in Buffers : buffers[b].state = "freed"
  /\ \E t \in Threads : evalLog[t] # NoEval

\* The contexts of the pipeline a buffer set belongs to: those of the handles
\* its thread has created.
PipelineContexts(b) ==
  {handles[h].ctx : h \in {g \in Handles : /\ handles[g].state # "none"
                                            /\ handles[g].owner = buffers[b].owner}}

\* C8 as stated: no context is freed while an InputBuffers of its pipeline is
\* still alive.
C8_BuffersFreedBeforeContext ==
  \A b \in Buffers : buffers[b].state = "live" =>
    \A c \in PipelineContexts(b) : contexts[c].state # "freed"

\* C8, amended: InputBuffers have no originating context. Freeing a context
\* neither waits for nor touches any InputBuffers: every buffer set alive
\* before freeComputeContext is alive, with its contents, after it.
C8_FreeContextLeavesBuffers ==
  [][(\E c \in Contexts : contexts[c].state = "live" /\ contexts'[c].state = "freed")
       => buffers' = buffers]_vars

\* A context has been freed while a filled buffer set, already used for an
\* evaluation with a handle of that context, is still alive.
C8_Witness ==
  \E b \in Buffers, c \in Contexts, t \in Threads :
    /\ contexts[c].state = "freed"
    /\ buffers[b].state = "live"
    /\ evalLog[t].b = b
    /\ evalLog[t].h \in Handles
    /\ handles[evalLog[t].h].ctx = c
    /\ BatchFilled(b, 1)

\* ------------------------------------------------------------ worker threads
\* The process once its main thread has called globalInitialize, loaded the
\* model and created the one context the worker threads share.
Prepared(version, fp16) ==
  /\ env = "init"
  /\ initCalls = 1
  /\ cleanupCalls = 0
  /\ models = [m \in Models |-> [state |-> "live", version |-> version]]
  /\ contexts = [c \in Contexts |->
                   IF c = 1 THEN [state |-> "live", model |-> 1, fp16 |-> fp16]
                   ELSE NoContext]
  /\ handles = [h \in Handles |-> NoHandle]
  /\ buffers = [b \in Buffers |-> NoBuffers]
  /\ threadDev = [t \in Threads |-> {}]
  /\ pc = [t \in Threads |-> Idle]
  /\ outputs = [t \in Threads |-> <<>>]
  /\ evalLog = [t \in Threads |-> NoEval]
  /\ rulesQ = NoQuery
  /\ harness = NoHarness

InitWorkers == Prepared(1, FALSE)

\* Worker threads in parallel against the shared context: thread t creates
\* one handle and one buffer set (numbered t), and tries its calls on every
\* handle and every buffer set there is.
NextAffinity ==
  \E t \in Threads :
    \/ createComputeHandle(t, t, 1, 1, 1, FALSE, -1)
    \/ \E h \in Handles : freeComputeHandle(t, h)
    \/ createInputBuffers(t, t, 1, 1, {})
    \/ \E b \in Buffers : freeInputBuffers(t, b)
    \/ \E b \in Buffers : getBatchEltSpatialInplace(t, b, 0, 0)
    \/ \E b \in Buffers : getBatchEltGlobalInplace(t, b, 0, 0)
    \/ \E h \in Handles, b \in Buffers : getOutputBegin(t, h, b, 1)
    \/ getOutputEnd(t)

SpecAffinity == InitWorkers /\ [][NextAffinity]_vars

\* The threads inside getOutput with handle h, and with buffer set b.
UsingHandle(h) == {t \in Threads : pc[t].op = "getOutput" /\ pc[t].h = h}
UsingBuffers(b) == {t \in Threads : pc[t].op = "getOutput" /\ pc[t].b = b}

\* C4: no ComputeHandle and no InputBuffers is in use by two threads at the
\* same time, and a handle (a buffer set) is only ever in use by the thread
\* that created it.
C4_ThreadAffine ==
  /\ \A h \in Handles : /\ Cardinality(UsingHandle(h)) <= 1
                        /\ \A t \in UsingHandle(h) : handles[h].owner = t
  /\ \A b \in Buffers : /\ Cardinality(UsingBuffers(b)) <= 1
                        /\ \A t \in UsingBuffers(b) : buffers[b].owner = t

\* Two threads are inside getOutput at the same time, each with its own
\* handle and buffers, both handles created from the same context.
C4_Witness ==
  \E t \in Threads, u \in Threads :
    /\ t # u
    /\ pc[t].op = "getOutput" /\ pc[u].op = "getOutput"
    /\ handles[pc[t].h].ctx = handles[pc[u].h].ctx
    /\ handles[pc[t].h].owner = t /\ handles[pc[u].h].owner = u

\* One thread creating handles for any GPU, several at a time, numbered in
\* creation order, and evaluating with any of them.
DeviceThread == {1}

NextDevice ==
  \E t \in DeviceThread :
    \/ \E h \in Handles, g \in GpuIdxs :
         h = NewHandle /\ h <= MaxHandles /\ createComputeHandle(t, h, 1, 1, 1, FALSE, g)
    \/ \E h \in Handles : freeComputeHandle(t, h)
    \/ \E b \in Buffers :
         b = NewBuffers /\ b <= MaxBuffers /\ createInputBuffers(t, b, 1, 1, {})
    \/ \E b \in Buffers : freeInputBuffers(t, b)
    \/ \E b \in Buffers : getBatchEltSpatialInplace(t, b, 0, 0)
    \/ \E b \in Buffers : getBatchEltGlobalInplace(t, b, 0, 0)
    \/ \E h \in Handles, b \in Buffers : getOutputBegin(t, h, b, 1)
    \/ getOutputEnd(t)

SpecDevice == InitWorkers /\ [][NextDevice]_vars

\* C10 as stated: whenever a thread is in getOutput on a handle it created,
\* the thread is bound to that handle's device.
C10_BoundToHandleDevice ==
  \A t \in Threads : pc[t].op = "getOutput" /\ handles[pc[t].h].owner = t =>
    threadDev[t] = {handles[pc[t].h].dev}

\* The handles thread t created after handle h (handles are numbered in
\* creation order), freed or not.
CreatedAfter(t, h) ==
  {g \in Handles : g > h /\ handles[g].state # "none" /\ handles[g].owner = t}

\* C10, amended: createComputeHandle binds the calling thread to the new
\* handle's device, and the binding lasts until the thread next creates a
\* handle: in getOutput on a handle it created, a thread is bound to the
\* handle's device provided it has created no handle for another device since.
C10_BoundToLatestDevice ==
  /\ \A t \in Threads : pc[t].op = "getOutput" /\ handles[pc[t].h].owner = t =>
       \/ \E g \in CreatedAfter(t, pc[t].h) : handles[g].dev # handles[pc[t].h].dev
       \/ threadDev[t] = {handles[pc[t].h].dev}
  /\ \A t \in Threads :
       LET mine == {h \in Handles : handles[h].state # "none" /\ handles[h].owner = t}
       IN \/ mine = {} /\ threadDev[t] = {}
          \/ \E h \in mine : CreatedAfter(t, h) = {} /\ threadDev[t] = {handles[h].dev}

\* A thread holding two live handles for different devices is in getOutput
\* on the one it created last.
C10_Witness ==
  \E t \in Threads, g \in Handles :
    /\ pc[t].op = "getOutput"
    /\ g < pc[t].h
    /\ handles[g].state = "live" /\ handles[g].owner = t
    /\ handles[g].dev # handles[pc[t].h].dev
    /\ CreatedAfter(t, pc[t].h) = {}

\* ----------------------------------------------------------------- evaluation
\* The context's precision mode is whichever the backend resolved.
InitEval == \E fp16 \in BOOLEAN : Prepared(1, fp16)

\* One worker thread with its handle (number 1) and its buffer set (number
\* 1), of independently chosen batch sizes: it fills slots, selects
\* symmetries and evaluates batches of every size the handle allows.
EvalThread == {1}

NextEval ==
  \E t \in EvalThread :
    \/ \E n \in BatchSizes, exact \in BOOLEAN :
         createComputeHandle(t, 1, 1, 1, n, exact, -1)
    \/ \E n \in BatchSizes, sym \in EvalSyms : createInputBuffers(t, 1, 1, n, sym)
    \/ \E nIdx \in 0..(MaxBatch - 1), v \in FeatureValues :
         getBatchEltSpatialInplace(t, 1, nIdx, v)
    \/ \E nIdx \in 0..(MaxBatch - 1), v \in GlobalValues :
         getBatchEltGlobalInplace(t, 1, nIdx, v)
    \/ \E sym \in EvalSyms : getSymmetriesInplace(t, 1, sym)
    \/ \E n \in 0..(MaxBatch + 1) : getOutputBegin(t, 1, 1, n)
    \/ getOutputEnd(t)

SpecEval == InitEval /\ [][NextEval]_vars

\* Thread t returns from getOutput in this step.
Returns(t) == pc[t].op = "getOutput" /\ pc'[t].op = "idle"

\* s with the contents of positions i and j exchanged.
Swapped(s, i, j) == [s EXCEPT ![i] = s[j], ![j] = s[i]]

\* Every way of filling the slots of a buffer set of the given capacity.
SlotContents == [spatial : {{v} : v \in FeatureValues} \cup {{}},
                 global : {{v} : v \in GlobalValues} \cup {{}}]
AllSlots(cap) == [1..cap -> SlotContents]

\* C3: getOutput writes exactly numFilled outputs, and output i is determined
\* by slot i alone: exchanging the contents of two filled slots exchanges the
\* two outputs and leaves the others, and no other slot (filled or not)
\* affects output i.
C3_Positional ==
  [][\A t \in Threads : Returns(t) =>
       LET n == pc[t].n
           b == buffers[pc[t].b]
           h == handles[pc[t].h]
           fp16 == contexts[h.ctx].fp16
           out == outputs'[t]
       IN /\ DOMAIN out = 1..n
          /\ \A i \in 1..n, j \in 1..n :
               EvalBatch(Swapped(b.slots, i, j), b.sym, n, fp16, h.exact)
                 = Swapped(out, i, j)
          /\ \A i \in 1..n : \A other \in AllSlots(b.maxBatch) :
               other[i] = b.slots[i] =>
                 EvalBatch(other, b.sym, n, fp16, h.exact)[i] = out[i]
    ]_vars

\* A batch of two slots holding different feature patterns has been
\* evaluated from a buffer set.
C3_Witness ==
  \E t \in Threads :
    /\ evalLog[t].n >= 2
    /\ DOMAIN outputs[t] = 1..evalLog[t].n
    /\ outputs[t][1] # outputs[t][2]

Initialized ==
  /\ env = "init"
  /\ initCalls = 1
  /\ cleanupCalls = 0
  /\ Untouched
  /\ outputs = [t \in Threads |-> <<>>]
  /\ rulesQ = NoQuery
  /\ harness = NoHarness

\* The main thread loads a model file of any version, asks for the supported
\* rules of any Rules value, and frees the model.
NextRules ==
  \E t \in MainThread, m \in Models :
    \/ \E version \in ModelVersions : loadModelFile(t, m, version)
    \/ \E desiredRules \in AllRules : getSupportedRules(t, m, desiredRules)
    \/ freeLoadedModel(t, m)

SpecRules == Initialized /\ [][NextRules]_vars

\* C5: the supported flag is true exactly when the returned rules are the
\* requested ones, and a query that feeds a query's answer back in (same
\* model) returns that answer again, with the flag true.
C5_Idempotent ==
  rulesQ.stage = "done" =>
    /\ rulesQ.supported <=> (rulesQ.rules = rulesQ.desired)
    /\ rulesQ.fedBack => rulesQ.supported /\ rulesQ.rules = rulesQ.desired

\* An answer that needed a substitution has been fed back in.
C5_Witness ==
  /\ rulesQ.stage = "done"
  /\ rulesQ.fedBack
  /\ ~rulesQ.prevSupported

\* ------------------------------------------------------------ conformance run
\* A backend implements any subset of the test entry points; the caller's
\* outputBuffer starts empty.
InitHarness ==
  /\ env = "init"
  /\ initCalls = 1
  /\ cleanupCalls = 0
  /\ Untouched
  /\ outputs = [t \in Threads |-> <<>>]
  /\ rulesQ = NoQuery
  /\ \E implemented \in SUBSET LayerKinds :
       harness = [stage |-> "ready", implemented |-> implemented,
                  outputBuffer |-> <<>>, before |-> <<>>, ret |-> "none",
                  call |-> TestCall("none", 0, <<>>, <<>>, {})]

\* The test driver calls the entry points one after another, reusing its
\* outputBuffer.
NextHarness ==
  \E t \in MainThread, inputBuffer \in TestInputs :
    \/ \E desc \in LayerDescs : testEvaluateConv(t, desc, inputBuffer)
    \/ \E desc \in LayerDescs, maskBuffer \in TestMasks :
         testEvaluateBatchNorm(t, desc, inputBuffer, maskBuffer)
    \/ \E desc \in LayerDescs, maskBuffer \in TestMasks :
         testEvaluateResidualBlock(t, desc, inputBuffer, maskBuffer)
    \/ \E desc \in LayerDescs, maskBuffer \in TestMasks :
         testEvaluateGlobalPoolingResidualBlock(t, desc, inputBuffer, maskBuffer)
    \/ \E symmetries \in SymmetrySets : testEvaluateSymmetry(t, symmetries, inputBuffer)

SpecHarness == InitHarness /\ [][NextHarness]_vars

\* C7: a testEvaluate call either returns false, for a layer the backend does
\* not implement, with outputBuffer as it was; or returns true, for a layer
\* it implements, with outputBuffer resized to and holding the layer's result;
\* a failure inside an implemented layer is fatal: no value is returned and
\* the process makes no further call.
C7_TwoOutcomes ==
  /\ [](harness.stage = "ready" /\ harness.ret # "none" =>
          /\ harness.ret \in {"true", "false", "fatal"}
          /\ harness.ret = "false" =>
               /\ harness.call.kind \notin harness.implemented
               /\ harness.outputBuffer = harness.before
          /\ harness.ret = "true" =>
               /\ harness.call.kind \in harness.implemented
               /\ harness.outputBuffer = LayerResult(harness.call)
               /\ DOMAIN harness.outputBuffer = DOMAIN harness.call.input
          /\ harness.ret = "fatal" =>
               /\ harness.call.kind \in harness.implemented
               /\ env = "aborted")
  /\ [][harness.ret # "fatal"]_vars

\* A call has returned false while outputBuffer holds the result of an
\* earlier, implemented, test.
C7_Witness ==
  /\ harness.stage = "ready"
  /\ harness.ret = "false"
  /\ harness.before # <<>>
  /\ harness.implemented # {}

====
